---- MODULE Spec2Model ----
(***************************************************************************)
(* A model of the Serper client (SerperClient): construction, the eleven   *)
(* public operations, the shared request executor (#request) with its      *)
(* timer and abort controller, and the status mapping (#handleError).      *)
(*                                                                         *)
(* A JavaScript string is a sequence of chunks (single characters for the  *)
(* caller's strings, whole literals for the texts the code writes).       *)
(* A JavaScript value is a record [t, s, n]: its type tag, its string      *)
(* payload and its number payload.  An object is a function from its own  *)
(* keys to values; a key may be present with the value undefined.         *)
(***************************************************************************)
EXTENDS Integers, Sequences, FiniteSets, TLC

VARIABLES client, calls

vars == <<client, calls>>

----------------------------------------------------------------------------
(* JavaScript values *)

Undefined == [t |-> "undefined", s |-> <<>>, n |-> 0]

Null == [t |-> "null", s |-> <<>>, n |-> 0]

Str(s) == [t |-> "string", s |-> s, n |-> 0]

Num(n) == [t |-> "number", s |-> <<>>, n |-> n]

\* ToBoolean: what `!v`, `v && ...` and `v || ...` test.
Truthy(v) ==
    CASE v.t = "string" -> v.s # <<>>
      [] v.t = "number" -> v.n # 0
      [] OTHER -> FALSE

NullishTypes == {"undefined", "null"}

\* What `v ?? w` tests.
Nullish(v) == v.t \in NullishTypes

EmptyObject == [k \in {} |-> Undefined]

\* obj.k : undefined when the object has no such key.
Get(obj, k) == IF k \in DOMAIN obj THEN obj[k] ELSE Undefined

\* { ...a, ...b } : the keys of both, b's value where both have the key.
Spread(a, b) ==
    [k \in (DOMAIN a) \cup (DOMAIN b) |-> IF k \in DOMAIN b THEN b[k] ELSE a[k]]

\* obj.k = v on a copy of obj.
Put(obj, k, v) == [j \in (DOMAIN obj) \cup {k} |-> IF j = k THEN v ELSE obj[j]]

----------------------------------------------------------------------------
(* Strings *)

WhiteSpace == {" ", "\t", "\n"}

IsWhiteSpace(ch) == ch \in WhiteSpace

RECURSIVE TrimStart(_)
TrimStart(s) ==
    IF s # <<>> /\ IsWhiteSpace(Head(s)) THEN TrimStart(Tail(s)) ELSE s

RECURSIVE TrimEnd(_)
TrimEnd(s) ==
    IF s # <<>> /\ IsWhiteSpace(s[Len(s)])
    THEN TrimEnd(SubSeq(s, 1, Len(s) - 1))
    ELSE s

\* String.prototype.trim
Trim(s) == TrimEnd(TrimStart(s))

DecimalDigits == <<"0", "1", "2", "3", "4", "5", "6", "7", "8", "9">>

Digit(d) == DecimalDigits[d + 1]

RECURSIVE Digits(_)
Digits(n) == IF n < 10 THEN <<Digit(n)>> ELSE Digits(n \div 10) \o <<Digit(n % 10)>>

\* `${n}` for an integer n.
NumToStr(n) == IF n < 0 THEN <<"-">> \o Digits(0 - n) ELSE Digits(n)

----------------------------------------------------------------------------
(* Constants of the client *)

BASE_URL == <<"https://google.serper.dev">>

DEFAULT_TIMEOUT == 30000

----------------------------------------------------------------------------
(* Errors: a thrown value is [name, message, status]; status 0 is "no      *)
(* status" (a native error has none).                                      *)

NoError == [name |-> "", message |-> <<>>, status |-> 0]

SerperAuthError(message) ==
    [name |-> "SerperAuthError", message |-> message, status |-> 401]

SerperRateLimitError(message) ==
    [name |-> "SerperRateLimitError", message |-> message, status |-> 429]

SerperValidationError(message) ==
    [name |-> "SerperValidationError", message |-> message, status |-> 400]

SerperServerError(message) ==
    [name |-> "SerperServerError", message |-> message, status |-> 500]

\* new Error(message)
GenericError(message) == [name |-> "Error", message |-> message, status |-> 0]

\* What the platform throws: json() on a malformed body, property access on null.
SyntaxError(message) == [name |-> "SyntaxError", message |-> message, status |-> 0]

TypeError(message) == [name |-> "TypeError", message |-> message, status |-> 0]

\* fetch's rejection when its signal is aborted.
AbortError == [name |-> "AbortError", message |-> <<"The signal has been aborted">>, status |-> 0]

\* A thrown value that is no Error object (`throw "text"`).
NonErrorThrown == [name |-> "(not an Error)", message |-> <<>>, status |-> 0]

IsErrorInstance(e) == e.name # NonErrorThrown.name

TypedNames ==
    {"SerperAuthError", "SerperRateLimitError", "SerperValidationError", "SerperServerError"}

\* error instanceof SerperAuthError || ... || error instanceof SerperServerError
IsSerperTyped(e) == e.name \in TypedNames

----------------------------------------------------------------------------
(* The client: its private fields after the constructor ran.              *)

NoClient ==
    [state |-> "none", options |-> EmptyObject, apiKey |-> Undefined,
     baseUrl |-> Undefined, defaultCountry |-> Undefined,
     defaultLanguage |-> Undefined, timeout |-> Undefined, thrown |-> NoError]

ApiKeyRequired ==
    GenericError(<<"API key is required. Get one at https://serper.dev">>)

\* As Constructed, without the test of the API key.
ConstructedUnchecked(options) ==
    [state |-> "constructed",
     options |-> options,
     apiKey |-> Get(options, "apiKey"),
     baseUrl |-> IF Nullish(Get(options, "baseUrl"))
                 THEN Str(BASE_URL) ELSE Get(options, "baseUrl"),
     defaultCountry |-> Get(options, "defaultCountry"),
     defaultLanguage |-> Get(options, "defaultLanguage"),
     timeout |-> IF Nullish(Get(options, "timeout"))
                 THEN Num(DEFAULT_TIMEOUT) ELSE Get(options, "timeout"),
     thrown |-> NoError]

\* As Constructed, with `||` where the constructor has `??`.
ConstructedWithOr(options) ==
    IF ~Truthy(Get(options, "apiKey"))
    THEN [NoClient EXCEPT
            !.state = "failed",
            !.options = options,
            !.thrown = ApiKeyRequired]
    ELSE [state |-> "constructed",
          options |-> options,
          apiKey |-> Get(options, "apiKey"),
          baseUrl |-> IF ~Truthy(Get(options, "baseUrl"))
                      THEN Str(BASE_URL) ELSE Get(options, "baseUrl"),
          defaultCountry |-> Get(options, "defaultCountry"),
          defaultLanguage |-> Get(options, "defaultLanguage"),
          timeout |-> IF ~Truthy(Get(options, "timeout"))
                      THEN Num(DEFAULT_TIMEOUT) ELSE Get(options, "timeout"),
          thrown |-> NoError]

\* new SerperClient(options): the fields, or the throw.
Constructed(options) ==
    IF ~Truthy(Get(options, "apiKey"))
    THEN [NoClient EXCEPT
            !.state = "failed",
            !.options = options,
            !.thrown = ApiKeyRequired]
    ELSE [state |-> "constructed",
          options |-> options,
          apiKey |-> Get(options, "apiKey"),
          baseUrl |-> IF Nullish(Get(options, "baseUrl"))
                      THEN Str(BASE_URL) ELSE Get(options, "baseUrl"),
          defaultCountry |-> Get(options, "defaultCountry"),
          defaultLanguage |-> Get(options, "defaultLanguage"),
          timeout |-> IF Nullish(Get(options, "timeout"))
                      THEN Num(DEFAULT_TIMEOUT) ELSE Get(options, "timeout"),
          thrown |-> NoError]

----------------------------------------------------------------------------
(* Building the request body (#request, before the fetch).                *)

\* As ApplyDefault, writing the default over the call's own value.
ApplyDefaultAlways(body, key, default) ==
    IF Truthy(default) THEN Put(body, key, default) ELSE body

\* if (this.#defaultCountry && !requestBody.gl) requestBody.gl = ...; same for hl.
ApplyDefault(body, key, default) ==
    IF Truthy(default) /\ ~Truthy(Get(body, key)) THEN Put(body, key, default) ELSE body

ApplyDefaults(cl, body) ==
    ApplyDefault(ApplyDefault(body, "gl", cl.defaultCountry), "hl", cl.defaultLanguage)

\* As CleanBody, without the filter.
CleanBodyUnfiltered(requestBody) == requestBody

\* Object.fromEntries(Object.entries(requestBody).filter(([_, v]) => v !== undefined))
CleanBody(requestBody) ==
    [k \in {j \in DOMAIN requestBody : requestBody[j] # Undefined} |-> requestBody[k]]

\* The JSON text of one value.
JsonText(v) ==
    CASE v.t = "string" -> <<"\"">> \o v.s \o <<"\"">>
      [] v.t = "number" -> NumToStr(v.n)
      [] OTHER -> <<"null">>

\* JSON.stringify(obj): a member whose value is undefined is left out, null is
\* written as null.  The text is kept as the members it holds.
JSONStringify(obj) ==
    [k \in {j \in DOMAIN obj : obj[j].t # "undefined"} |-> JsonText(obj[k])]

----------------------------------------------------------------------------
(* One call of a public operation: where it stands, its arguments, the    *)
(* request it dispatched, its timer and abort signal, the response or the *)
(* rejection its fetch settled with, and how it ended.                    *)

NoRequest == [url |-> <<>>, method |-> "", headers |-> EmptyObject, body |-> EmptyObject]

NoBody == [kind |-> "none", obj |-> EmptyObject]

NoResponse == [status |-> 0, statusText |-> <<>>, body |-> NoBody]

\* No value was returned (a returned JSON null is [kind |-> "null"]).
NoValue == NoBody

IdleCall ==
    [pc |-> "idle", op |-> "", query |-> Undefined, options |-> EmptyObject,
     endpoint |-> <<>>, cleanBody |-> EmptyObject, request |-> NoRequest,
     dispatched |-> 0, timer |-> "unset", timerMs |-> Undefined, aborted |-> FALSE,
     response |-> NoResponse, rejection |-> NoError, returned |-> NoValue,
     thrown |-> NoError]

\* clearTimeout(timeoutId): a pending timer is cancelled, any other is left as it is.
ClearTimeout(timer) == IF timer = "armed" THEN "cleared" ELSE timer

ContentTypeJson == "Content-Type" :> <<"application/json">>

\* As Request, with the API key in the query string of the URL as well.
RequestKeyInUrl(cl, call, endpoint, body) ==
    LET requestBody == ApplyDefaults(cl, Spread(body, EmptyObject))
        cleanBody == CleanBody(requestBody)
    IN  [call EXCEPT
           !.pc = "fetch",
           !.endpoint = endpoint,
           !.cleanBody = cleanBody,
           !.aborted = FALSE,
           !.timer = "armed",
           !.timerMs = cl.timeout,
           !.request = [url |-> cl.baseUrl.s \o endpoint \o <<"?apiKey=">> \o cl.apiKey.s,
                        method |-> "POST",
                        headers |-> ContentTypeJson @@ ("X-API-KEY" :> cl.apiKey.s),
                        body |-> JSONStringify(cleanBody)],
           !.dispatched = @ + 1]

\* As Request, sending to the fixed host whatever base URL was configured.
RequestToFixedHost(cl, call, endpoint, body) ==
    LET requestBody == ApplyDefaults(cl, Spread(body, EmptyObject))
        cleanBody == CleanBody(requestBody)
    IN  [call EXCEPT
           !.pc = "fetch",
           !.endpoint = endpoint,
           !.cleanBody = cleanBody,
           !.aborted = FALSE,
           !.timer = "armed",
           !.timerMs = cl.timeout,
           !.request = [url |-> BASE_URL \o endpoint,
                        method |-> "POST",
                        headers |-> ContentTypeJson @@ ("X-API-KEY" :> cl.apiKey.s),
                        body |-> JSONStringify(cleanBody)],
           !.dispatched = @ + 1]

\* #request up to the await of fetch: defaults, cleaning, the timer, the fetch.
Request(cl, call, endpoint, body) ==
    LET requestBody == ApplyDefaults(cl, Spread(body, EmptyObject))
        cleanBody == CleanBody(requestBody)
    IN  [call EXCEPT
           !.pc = "fetch",
           !.endpoint = endpoint,
           !.cleanBody = cleanBody,
           !.aborted = FALSE,
           !.timer = "armed",
           !.timerMs = cl.timeout,
           !.request = [url |-> cl.baseUrl.s \o endpoint,
                        method |-> "POST",
                        headers |-> ContentTypeJson @@ ("X-API-KEY" :> cl.apiKey.s),
                        body |-> JSONStringify(cleanBody)],
           !.dispatched = @ + 1]

\* response.ok
Ok(response) == response.status \in 200..299

\* As FetchResolved, without the clearTimeout.
FetchResolvedTimerKept(call, response) ==
    [call EXCEPT
       !.response = response,
       !.pc = IF Ok(response) THEN "body" ELSE "errorBody"]

\* fetch resolved: clearTimeout, then the await of response.json(), in
\* #handleError when the status is not ok and in #request otherwise.
FetchResolved(call, response) ==
    [call EXCEPT
       !.response = response,
       !.timer = ClearTimeout(@),
       !.pc = IF Ok(response) THEN "body" ELSE "errorBody"]

\* What `await response.json()` throws, for the bodies that make it throw.
UnexpectedToken == SyntaxError(<<"Unexpected token">>)

BodyReadFailed == TypeError(<<"error reading a body from connection">>)

JsonRejection(body) == IF body.kind = "invalid" THEN UnexpectedToken ELSE BodyReadFailed

\* String(v) for the values an `error` member may hold.
StringOf(v) ==
    CASE v.t = "string" -> v.s
      [] v.t = "number" -> NumToStr(v.n)
      [] OTHER -> <<v.t>>

\* As ErrorMessage, with the status text alone as the fallback.
ErrorMessageStatusTextOnly(response) ==
    IF response.body.kind = "object"
    THEN IF Nullish(Get(response.body.obj, "error"))
         THEN response.statusText
         ELSE StringOf(Get(response.body.obj, "error"))
    ELSE response.statusText

\* #handleError: the message.  The try block reads errorBody.error (which throws
\* on a null body as json() throws on a malformed one); the catch falls back.
ErrorMessage(response) ==
    IF response.body.kind = "object"
    THEN IF Nullish(Get(response.body.obj, "error"))
         THEN response.statusText
         ELSE StringOf(Get(response.body.obj, "error"))
    ELSE IF response.statusText # <<>>
         THEN response.statusText
         ELSE <<"HTTP ">> \o NumToStr(response.status)

\* As StatusToError, with 403 left out of the first test.
StatusToErrorWithout403(status, errorMessage) ==
    IF status = 401 THEN SerperAuthError(errorMessage)
    ELSE IF status = 429 THEN SerperRateLimitError(errorMessage)
    ELSE IF status >= 400 /\ status < 500 THEN SerperValidationError(errorMessage)
    ELSE SerperServerError(NumToStr(status) \o <<": ">> \o errorMessage)

\* As StatusToError, with the bare message for every kind.
StatusToErrorBareMessage(status, errorMessage) ==
    IF status = 401 \/ status = 403 THEN SerperAuthError(errorMessage)
    ELSE IF status = 429 THEN SerperRateLimitError(errorMessage)
    ELSE IF status >= 400 /\ status < 500 THEN SerperValidationError(errorMessage)
    ELSE SerperServerError(errorMessage)

\* As StatusToError, with the status of the response on the failure.
StatusToErrorWithHttpStatus(status, errorMessage) ==
    IF status = 401 \/ status = 403
    THEN [SerperAuthError(errorMessage) EXCEPT !.status = status]
    ELSE IF status = 429 THEN SerperRateLimitError(errorMessage)
    ELSE IF status >= 400 /\ status < 500
    THEN [SerperValidationError(errorMessage) EXCEPT !.status = status]
    ELSE [SerperServerError(NumToStr(status) \o <<": ">> \o errorMessage)
            EXCEPT !.status = status]

\* #handleError: the status mapping.
StatusToError(status, errorMessage) ==
    IF status = 401 \/ status = 403 THEN SerperAuthError(errorMessage)
    ELSE IF status = 429 THEN SerperRateLimitError(errorMessage)
    ELSE IF status >= 400 /\ status < 500 THEN SerperValidationError(errorMessage)
    ELSE SerperServerError(NumToStr(status) \o <<": ">> \o errorMessage)

\* #handleError(response): what it throws.
HandleError(response) == StatusToError(response.status, ErrorMessage(response))

\* As CatchError, wrapping the Serper errors like any other error.
CatchErrorWrapTyped(cl, error) ==
    IF IsErrorInstance(error) /\ error.name = "AbortError"
    THEN SerperServerError(<<"Request timeout after ">> \o StringOf(cl.timeout)
                           \o <<"ms. Consider increasing timeout.">>)
    ELSE SerperServerError(<<"Network error: ">> \o
            (IF IsErrorInstance(error) THEN error.message ELSE <<"Unknown error">>))

\* As CatchError, without the test for AbortError.
CatchErrorNoAbort(cl, error) ==
    IF IsSerperTyped(error)
    THEN error
    ELSE SerperServerError(<<"Network error: ">> \o
            (IF IsErrorInstance(error) THEN error.message ELSE <<"Unknown error">>))

\* As CatchError, rethrowing what it does not know instead of wrapping it.
CatchErrorRethrow(cl, error) ==
    IF IsErrorInstance(error) /\ error.name = "AbortError"
    THEN SerperServerError(<<"Request timeout after ">> \o StringOf(cl.timeout)
                           \o <<"ms. Consider increasing timeout.">>)
    ELSE error

\* As CatchError, wrapping without the message of what it caught.
CatchErrorNoMessage(cl, error) ==
    IF IsErrorInstance(error) /\ error.name = "AbortError"
    THEN SerperServerError(<<"Request timeout after ">> \o StringOf(cl.timeout)
                           \o <<"ms. Consider increasing timeout.">>)
    ELSE IF IsSerperTyped(error)
    THEN error
    ELSE SerperServerError(<<"Network error: ", "Unknown error">>)

\* The catch block of #request: what it throws for what it caught.
CatchError(cl, error) ==
    IF IsErrorInstance(error) /\ error.name = "AbortError"
    THEN SerperServerError(<<"Request timeout after ">> \o StringOf(cl.timeout)
                           \o <<"ms. Consider increasing timeout.">>)
    ELSE IF IsSerperTyped(error)
    THEN error
    ELSE SerperServerError(<<"Network error: ">> \o
            (IF IsErrorInstance(error) THEN error.message ELSE <<"Unknown error">>))

\* As Caught, trying the request once more before giving up.
CaughtRetried(cl, call, error) ==
    IF call.dispatched < 2
    THEN [call EXCEPT
            !.pc = "fetch",
            !.timer = "armed",
            !.aborted = FALSE,
            !.response = NoResponse,
            !.dispatched = @ + 1]
    ELSE [call EXCEPT
            !.pc = "done",
            !.timer = ClearTimeout(@),
            !.thrown = CatchError(cl, error)]

\* As Caught, without the clearTimeout of the catch block.
CaughtTimerKept(cl, call, error) ==
    [call EXCEPT !.pc = "done", !.thrown = CatchError(cl, error)]

\* An error reached the catch block of #request: clearTimeout, then the throw.
Caught(cl, call, error) ==
    [call EXCEPT
       !.pc = "done",
       !.timer = ClearTimeout(@),
       !.thrown = CatchError(cl, error)]

\* The bodies json() parses: an object, or the JSON null.
JsonKinds == {"object", "null"}

\* The decoded `{}`.
EmptyJsonObject == [kind |-> "object", obj |-> EmptyObject]

\* As BodySettled, returning an empty object where the body is the JSON null.
BodySettledNullAsEmpty(cl, call) ==
    IF call.response.body.kind \in JsonKinds
    THEN [call EXCEPT
            !.pc = "done",
            !.returned = IF call.response.body.kind = "null"
                         THEN EmptyJsonObject
                         ELSE call.response.body]
    ELSE Caught(cl, call, JsonRejection(call.response.body))

\* response.json() settled in #request (status ok): return the data as it is,
\* or the rejection goes to the catch block.
BodySettled(cl, call) ==
    IF call.response.body.kind \in JsonKinds
    THEN [call EXCEPT !.pc = "done", !.returned = call.response.body]
    ELSE Caught(cl, call, JsonRejection(call.response.body))

\* As ErrorBodySettled, had #request not thrown on a status that is not ok: it
\* goes on to return the body.
ErrorBodySettledAsOk(cl, call) == BodySettled(cl, call)

\* response.json() settled in #handleError (status not ok): its throw goes
\* through the catch block of #request.
ErrorBodySettled(cl, call) == Caught(cl, call, HandleError(call.response))

----------------------------------------------------------------------------
(* The public operations, up to their first await.                        *)

\* As BlankQuery, without the test of the trimmed length.
BlankQueryUntrimmed(query) == ~Truthy(query)

\* if (!query || query.trim().length === 0)
BlankQuery(query) == ~Truthy(query) \/ Len(Trim(query.s)) = 0

\* A query-based operation: the pre-flight check, then
\* #request(endpoint, { q: query.trim(), ...options }).
QueryCall(cl, op, endpoint, emptyMessage, query, options) ==
    LET call == [IdleCall EXCEPT !.op = op, !.query = query, !.options = options]
    IN  IF BlankQuery(query)
        THEN [call EXCEPT !.pc = "done", !.thrown = SerperValidationError(emptyMessage)]
        ELSE Request(cl, call, endpoint, Spread([q |-> Str(Trim(query.s))], options))

\* As NoIdentifier, taking an identifier of white space for none, the way the
\* query-based operations take a query.
NoIdentifierTrimmed(options) ==
    /\ BlankQuery(Get(options, "placeId"))
    /\ BlankQuery(Get(options, "cid"))
    /\ BlankQuery(Get(options, "q"))

\* As NoIdentifier, testing placeId alone.
NoPlaceId(options) == ~Truthy(Get(options, "placeId"))

\* if (!options.placeId && !options.cid && !options.q)
NoIdentifier(options) ==
    /\ ~Truthy(Get(options, "placeId"))
    /\ ~Truthy(Get(options, "cid"))
    /\ ~Truthy(Get(options, "q"))

IdentifierRequired ==
    SerperValidationError(<<"At least one of placeId, cid, or q is required for reviews">>)

\* getReviews: the pre-flight check, then #request("/reviews", { ...options }).
ReviewsCall(cl, options) ==
    LET call == [IdleCall EXCEPT !.op = "getReviews", !.options = options]
    IN  IF NoIdentifier(options)
        THEN [call EXCEPT !.pc = "done", !.thrown = IdentifierRequired]
        ELSE Request(cl, call, <<"/reviews">>, Spread(EmptyObject, options))

QueryEmpty == <<"Search query cannot be empty">>

AutocompleteEmpty == <<"Query cannot be empty">>

\* Call c can be made once: the client exists and the call was not made yet.
CanCall(c) == client.state = "constructed" /\ calls[c].pc = "idle"

Start(c, call) == calls' = [calls EXCEPT ![c] = call] /\ UNCHANGED client

search(c, query, options) ==
    /\ CanCall(c)
    /\ Start(c, QueryCall(client, "search", <<"/search">>, QueryEmpty, query, options))

searchImages(c, query, options) ==
    /\ CanCall(c)
    /\ Start(c, QueryCall(client, "searchImages", <<"/images">>, QueryEmpty, query, options))

searchNews(c, query, options) ==
    /\ CanCall(c)
    /\ Start(c, QueryCall(client, "searchNews", <<"/news">>, QueryEmpty, query, options))

searchVideos(c, query, options) ==
    /\ CanCall(c)
    /\ Start(c, QueryCall(client, "searchVideos", <<"/videos">>, QueryEmpty, query, options))

searchShopping(c, query, options) ==
    /\ CanCall(c)
    /\ Start(c, QueryCall(client, "searchShopping", <<"/shopping">>, QueryEmpty, query, options))

searchMaps(c, query, options) ==
    /\ CanCall(c)
    /\ Start(c, QueryCall(client, "searchMaps", <<"/maps">>, QueryEmpty, query, options))

\* As searchPlaces, with a request of its own to /places.
searchPlacesOwnEndpoint(c, query, options) ==
    /\ CanCall(c)
    /\ Start(c, QueryCall(client, "searchPlaces", <<"/places">>, QueryEmpty, query, options))

\* return await this.searchMaps(query, options): the call is searchMaps's, under
\* the name the caller used.
searchPlaces(c, query, options) ==
    /\ CanCall(c)
    /\ Start(c, [QueryCall(client, "searchMaps", <<"/maps">>, QueryEmpty, query, options)
                   EXCEPT !.op = "searchPlaces"])

getReviews(c, options) ==
    /\ CanCall(c)
    /\ Start(c, ReviewsCall(client, options))

searchScholar(c, query, options) ==
    /\ CanCall(c)
    /\ Start(c, QueryCall(client, "searchScholar", <<"/scholar">>, QueryEmpty, query, options))

searchPatents(c, query, options) ==
    /\ CanCall(c)
    /\ Start(c, QueryCall(client, "searchPatents", <<"/patents">>, QueryEmpty, query, options))

autocomplete(c, query, options) ==
    /\ CanCall(c)
    /\ Start(c, QueryCall(client, "autocomplete", <<"/autocomplete">>,
                          AutocompleteEmpty, query, options))

----------------------------------------------------------------------------
(* The constructor, and what happens to a call after its fetch.           *)

Construct(options) ==
    /\ client.state = "none"
    /\ client' = Constructed(options)
    /\ UNCHANGED calls

\* The fetch promise resolves with a response.
FetchResolves(c, response) ==
    /\ calls[c].pc = "fetch"
    /\ ~calls[c].aborted
    /\ calls' = [calls EXCEPT ![c] = FetchResolved(calls[c], response)]
    /\ UNCHANGED client

\* The fetch promise rejects with a transport error.
FetchRejects(c, error) ==
    /\ calls[c].pc = "fetch"
    /\ ~calls[c].aborted
    /\ calls' = [calls EXCEPT
                   ![c] = [Caught(client, calls[c], error) EXCEPT !.rejection = error]]
    /\ UNCHANGED client

\* As TimerFires, with one abort controller that the calls in flight share.
TimerFiresShared(c) ==
    /\ calls[c].timer = "armed"
    /\ calls' = [d \in DOMAIN calls |->
                   IF d = c
                   THEN [calls[d] EXCEPT !.timer = "fired", !.aborted = TRUE]
                   ELSE IF calls[d].pc = "fetch"
                   THEN [calls[d] EXCEPT !.aborted = TRUE]
                   ELSE calls[d]]
    /\ UNCHANGED client

\* The timer of the call fires: () => controller.abort().
TimerFires(c) ==
    /\ calls[c].timer = "armed"
    /\ calls' = [calls EXCEPT ![c].timer = "fired", ![c].aborted = TRUE]
    /\ UNCHANGED client

\* The fetch promise of an aborted signal rejects with AbortError.
AbortRejects(c) ==
    /\ calls[c].pc = "fetch"
    /\ calls[c].aborted
    /\ calls' = [calls EXCEPT
                   ![c] = [Caught(client, calls[c], AbortError) EXCEPT !.rejection = AbortError]]
    /\ UNCHANGED client

\* response.json() of an ok response settles; a stalled body never does.
BodySettles(c) ==
    /\ calls[c].pc = "body"
    /\ calls[c].response.body.kind # "stalled"
    /\ calls' = [calls EXCEPT ![c] = BodySettled(client, calls[c])]
    /\ UNCHANGED client

\* response.json() of an error response settles; a stalled body never does.
ErrorBodySettles(c) ==
    /\ calls[c].pc = "errorBody"
    /\ calls[c].response.body.kind # "stalled"
    /\ calls' = [calls EXCEPT ![c] = ErrorBodySettled(client, calls[c])]
    /\ UNCHANGED client

----------------------------------------------------------------------------
(* Bounds and the inputs drawn from them.                                  *)

\* Calls made on the client; they may be in progress at the same time.
MaxCalls == 2

\* Longest query string a caller passes.
MaxQueryLen == 3

Calls == 1..MaxCalls

Chars == {" ", "a"}

StringsUpTo(n) == UNION {[1..m -> Chars] : m \in 0..n}

\* Every object with keys among `keys` and values among `values`.
ObjectsOver(keys, values) == UNION {[ks -> values] : ks \in SUBSET keys}

ConstructorOptions(apiKeys, baseUrls, countries, languages, timeouts) ==
    {[apiKey |-> a, baseUrl |-> b, defaultCountry |-> dc, defaultLanguage |-> dl,
      timeout |-> t] :
        a \in apiKeys, b \in baseUrls, dc \in countries, dl \in languages, t \in timeouts}

BodyKinds == {"invalid", "null", "stalled", "reset"}

Body(obj) == [kind |-> "object", obj |-> obj]

\* Bodies: malformed, the JSON null, one that never completes, one whose
\* connection fails, and JSON objects with and without an `error` member.
Bodies ==
    {[kind |-> k, obj |-> EmptyObject] : k \in BodyKinds}
    \cup {Body([error |-> Str(<<"Invalid API key">>)]),
          Body([error |-> Str(<<>>)]),
          Body([error |-> Null]),
          Body([organic |-> Str(<<"result">>)])}

Statuses ==
    {200, 201, 204, 299, 300, 304, 399, 400, 401, 402, 403, 404, 428, 429, 430,
     499, 500, 502, 503, 599}

StatusTexts == {<<>>, <<"Status Text">>}

Responses(statuses, texts, bodies) ==
    {[status |-> st, statusText |-> tx, body |-> b] :
        st \in statuses, tx \in texts, b \in bodies}

TransportErrors == {TypeError(<<"dns error">>), NonErrorThrown}

----------------------------------------------------------------------------
(* The state machine.                                                      *)

Init ==
    /\ client = NoClient
    /\ calls = [c \in Calls |-> IdleCall]

\* The steps of the program, with the callers' and the network's choices
\* drawn from the given sets (each guard is stated before its choices).
NextOn(slots, ctors, queries, bags, reviewBags, responses, errors) ==
    \/ client.state = "none" /\ \E o \in ctors : Construct(o)
    \/ \E c \in slots : CanCall(c) /\ \E q \in queries, o \in bags : search(c, q, o)
    \/ \E c \in slots : CanCall(c) /\ \E q \in queries, o \in bags : searchImages(c, q, o)
    \/ \E c \in slots : CanCall(c) /\ \E q \in queries, o \in bags : searchNews(c, q, o)
    \/ \E c \in slots : CanCall(c) /\ \E q \in queries, o \in bags : searchVideos(c, q, o)
    \/ \E c \in slots : CanCall(c) /\ \E q \in queries, o \in bags : searchShopping(c, q, o)
    \/ \E c \in slots : CanCall(c) /\ \E q \in queries, o \in bags : searchMaps(c, q, o)
    \/ \E c \in slots : CanCall(c) /\ \E q \in queries, o \in bags : searchPlaces(c, q, o)
    \/ \E c \in slots : CanCall(c) /\ \E o \in reviewBags : getReviews(c, o)
    \/ \E c \in slots : CanCall(c) /\ \E q \in queries, o \in bags : searchScholar(c, q, o)
    \/ \E c \in slots : CanCall(c) /\ \E q \in queries, o \in bags : searchPatents(c, q, o)
    \/ \E c \in slots : CanCall(c) /\ \E q \in queries, o \in bags : autocomplete(c, q, o)
    \/ \E c \in slots : calls[c].pc = "fetch" /\ \E r \in responses : FetchResolves(c, r)
    \/ \E c \in slots : calls[c].pc = "fetch" /\ \E e \in errors : FetchRejects(c, e)
    \/ \E c \in slots : TimerFires(c)
    \/ \E c \in slots : AbortRejects(c)
    \/ \E c \in slots : BodySettles(c)
    \/ \E c \in slots : ErrorBodySettles(c)

OneCall == {1}

\* The inputs of Spec: the constructor's options, few arguments, every response.
SpecConstructorOptions ==
    ConstructorOptions({Undefined, Str(<<>>), Str(<<"key">>)}, {Undefined},
                       {Undefined}, {Undefined}, {Undefined, Num(100)})

SpecQueries == {Str(<<>>), Str(<<" ">>), Str(<<" ", "a">>)}

SpecOptionBags == {EmptyObject}

SpecReviewsBags == {EmptyObject, [cid |-> Str(<<"1">>)]}

SpecResponses == Responses(Statuses, StatusTexts, Bodies)

\* The executor under every response: one call, few arguments, every response.
Next ==
    NextOn(OneCall, SpecConstructorOptions, SpecQueries, SpecOptionBags, SpecReviewsBags,
           SpecResponses, TransportErrors)

Spec == Init /\ [][Next]_vars

\* What a caller passes as a query: every string up to the bound, or nothing.
Queries == {Undefined} \cup {Str(s) : s \in StringsUpTo(MaxQueryLen)}

OptionValues == {Undefined, Null, Str(<<>>), Str(<<"d", "e">>)}

\* Option bags of the query-based operations.
OptionBags ==
    {Spread(g, h) : g \in ObjectsOver({"gl"}, OptionValues),
                    h \in ObjectsOver({"hl"}, {Undefined, Str(<<"f", "r">>)})}
    \cup ObjectsOver({"q"}, {Undefined, Str(<<"z">>)})

IdentifierValues == {Undefined, Str(<<>>), Str(<<" ">>), Str(<<"x">>)}

\* Option bags of getReviews.
ReviewsBags ==
    ObjectsOver({"placeId", "cid", "q"}, IdentifierValues)
    \cup {Spread([cid |-> Str(<<"1">>)], h) : h \in ObjectsOver({"hl"}, OptionValues)}

PayloadConstructorOptions ==
    ConstructorOptions({Str(<<"key">>)}, {Undefined},
                       {Undefined, Str(<<>>), Str(<<"u", "s">>)},
                       {Undefined, Str(<<"e", "n">>)}, {Undefined})

PayloadResponses ==
    Responses({200, 401}, {<<"Status Text">>}, {Body([organic |-> Str(<<"result">>)])})

PayloadErrors == {TypeError(<<"dns error">>)}

\* The request payload under every argument: one call, every query and option
\* bag, every pair of configured defaults, two responses.
PayloadNext ==
    NextOn(OneCall, PayloadConstructorOptions, Queries, OptionBags, ReviewsBags,
           PayloadResponses, PayloadErrors)

PayloadSpec == Init /\ [][PayloadNext]_vars

ConcurrentConstructorOptions ==
    ConstructorOptions({Str(<<"key">>)}, {Undefined}, {Undefined}, {Undefined}, {Num(100)})

ConcurrentQueries == {Str(<<"a">>)}

ConcurrentReviewsBags == {[cid |-> Str(<<"1">>)]}

ConcurrentResponses ==
    {[status |-> 200, statusText |-> <<"Status Text">>,
      body |-> Body([organic |-> Str(<<"result">>)])],
     [status |-> 429, statusText |-> <<"Status Text">>,
      body |-> [kind |-> "invalid", obj |-> EmptyObject]]}

\* Calls in progress at the same time: every call of Calls, one query, two
\* responses, one transport error, in every interleaving of their steps.
ConcurrentNext ==
    NextOn(Calls, ConcurrentConstructorOptions, ConcurrentQueries, SpecOptionBags,
           ConcurrentReviewsBags, ConcurrentResponses, PayloadErrors)

ConcurrentSpec == Init /\ [][ConcurrentNext]_vars

ConfigConstructorOptions ==
    ConstructorOptions({Undefined, Str(<<>>), Str(<<" ">>), Str(<<"key">>)},
                       {Undefined, Str(<<>>), Str(<<"https://custom.api.com">>)},
                       {Undefined}, {Undefined},
                       {Undefined, Num(-1), Num(0), Num(100)})

ConfigQueries == {Str(<<>>), Str(<<"a">>)}

\* The configuration under every constructor option: one call, every API key,
\* base URL and timeout a caller may give or leave out.
ConfigNext ==
    NextOn(OneCall, ConfigConstructorOptions, ConfigQueries, SpecOptionBags,
           SpecReviewsBags, ConcurrentResponses, PayloadErrors)

ConfigSpec == Init /\ [][ConfigNext]_vars

TwoCalls == {1, 2}

AliasConstructorOptions ==
    ConstructorOptions({Str(<<"key">>)}, {Undefined}, {Undefined, Str(<<"u", "s">>)},
                       {Undefined}, {Undefined})

AliasQueries == {Str(<<>>), Str(<<" ", "a">>)}

AliasOptionBags == {EmptyObject, [gl |-> Str(<<"d", "e">>)]}

\* Two calls side by side, to compare an operation with its alias: two
\* queries, two option bags, two configurations, two responses.
AliasNext ==
    NextOn(TwoCalls, AliasConstructorOptions, AliasQueries, AliasOptionBags,
           SpecReviewsBags, ConcurrentResponses, PayloadErrors)

AliasSpec == Init /\ [][AliasNext]_vars

LiveStatuses == {200, 404, 500}

LiveBodies ==
    {[kind |-> "invalid", obj |-> EmptyObject],
     [kind |-> "stalled", obj |-> EmptyObject],
     Body([organic |-> Str(<<"result">>)])}

LiveResponses == Responses(LiveStatuses, StatusTexts, LiveBodies)

LiveNext ==
    NextOn(OneCall, SpecConstructorOptions, SpecQueries, SpecOptionBags, SpecReviewsBags,
           LiveResponses, TransportErrors)

\* What the event loop guarantees: a pending timer fires, the fetch of an
\* aborted signal rejects, and the read of a body that completes settles.  The
\* network guarantees nothing: a fetch need not settle, a body need not
\* complete.
LiveFairness ==
    \A c \in Calls :
        /\ WF_vars(TimerFires(c))
        /\ WF_vars(AbortRejects(c))
        /\ WF_vars(BodySettles(c))
        /\ WF_vars(ErrorBodySettles(c))

\* The executor under the event loop's guarantees.
LiveSpec == Init /\ [][LiveNext]_vars /\ LiveFairness

----------------------------------------------------------------------------
(* Properties.                                                             *)

Done(c) == calls[c].pc = "done"

Returned(c) == calls[c].returned # NoValue

Threw(c) == calls[c].thrown # NoError

\* The call got a response whose status is not 2xx.
GotErrorStatus(c) == calls[c].response # NoResponse /\ ~Ok(calls[c].response)

\* C1: a call that completed either returned a result or raised a failure,
\* never both and never neither; a call whose response had a status that is
\* not 2xx raised a failure and returned nothing.
C1_ExactlyOneOutcome ==
    \A c \in Calls :
        Done(c) =>
            /\ Returned(c) # Threw(c)
            /\ GotErrorStatus(c) => (Threw(c) /\ ~Returned(c))

\* C1 witness: a call that got a 404 with a well-formed JSON body has completed.
C1_Witness ==
    \E c \in Calls :
        /\ Done(c)
        /\ calls[c].response.status = 404
        /\ calls[c].response.body.kind = "object"
        /\ Threw(c)

AuthStatuses == {401, 403}

ClientErrorStatuses == 400..499

\* The failure kind the status table gives a status that is not 2xx.
KindOfStatus(status) ==
    IF status \in AuthStatuses THEN "SerperAuthError"
    ELSE IF status = 429 THEN "SerperRateLimitError"
    ELSE IF status \in ClientErrorStatuses THEN "SerperValidationError"
    ELSE "SerperServerError"

\* C2: a call that completed on a response whose status is not 2xx raised the
\* failure kind of the table: 401 and 403 AuthFailure, 429 RateLimitFailure,
\* any other 4xx ValidationFailure, any other status ServerFailure.
C2_StatusMapping ==
    \A c \in Calls :
        (Done(c) /\ GotErrorStatus(c)) =>
            calls[c].thrown.name = KindOfStatus(calls[c].response.status)

\* C2 witness: a call that got a 403 completed with AuthFailure.
C2_Witness ==
    \E c \in Calls :
        /\ Done(c)
        /\ calls[c].response.status = 403
        /\ calls[c].thrown.name = "SerperAuthError"


QueryOps ==
    {"search", "searchImages", "searchNews", "searchVideos", "searchShopping",
     "searchMaps", "searchPlaces", "searchScholar", "searchPatents", "autocomplete"}

Started(c) == calls[c].pc # "idle"

\* The call dispatched an HTTP request.
Sent(c) == calls[c].request # NoRequest

\* A string that is empty or holds white space only.
IsBlankString(v) == v.t = "string" /\ \A i \in 1..Len(v.s) : v.s[i] \in WhiteSpace

\* C3: a call of a query-based operation whose query is empty or only white
\* space has raised ValidationFailure and has dispatched no HTTP request.
C3_BlankQueryRejected ==
    \A c \in Calls :
        (Started(c) /\ calls[c].op \in QueryOps /\ IsBlankString(calls[c].query)) =>
            /\ Done(c)
            /\ calls[c].thrown.name = "SerperValidationError"
            /\ ~Returned(c)
            /\ ~Sent(c)
            /\ calls[c].dispatched = 0

ThreeSpaces == Str(<<" ", " ", " ">>)

\* C3 witness: searchNews was called with a query of three spaces.
C3_Witness ==
    \E c \in Calls :
        /\ calls[c].op = "searchNews"
        /\ calls[c].query = ThreeSpaces
        /\ calls[c].thrown.name = "SerperValidationError"

IdentifierKeys == {"placeId", "cid", "q"}

\* An identifier the caller left out, and one the caller gave.
Absent(v) == v = Undefined

Present(v) == v.t = "string" /\ ~IsBlankString(v)

ReviewsUrl == BASE_URL \o <<"/reviews">>

\* C4: a getReviews call with placeId, cid and q all absent has raised
\* ValidationFailure and dispatched nothing; one with exactly one of them
\* present has dispatched exactly one request, to /reviews.
C4_ReviewsIdentifier ==
    \A c \in Calls :
        (Started(c) /\ calls[c].op = "getReviews") =>
            /\ (\A k \in IdentifierKeys : Absent(Get(calls[c].options, k))) =>
                  /\ Done(c)
                  /\ calls[c].thrown.name = "SerperValidationError"
                  /\ ~Sent(c)
                  /\ calls[c].dispatched = 0
            /\ Cardinality({k \in IdentifierKeys : Present(Get(calls[c].options, k))}) = 1 =>
                  /\ Sent(c)
                  /\ calls[c].dispatched = 1
                  /\ calls[c].request.url = ReviewsUrl
                  /\ calls[c].thrown.name # "SerperValidationError"

\* C4 witness: getReviews was called with q alone and its request is in flight.
C4_Witness ==
    \E c \in Calls :
        /\ calls[c].op = "getReviews"
        /\ DOMAIN calls[c].options = {"q"}
        /\ Present(calls[c].options["q"])
        /\ calls[c].pc = "fetch"
        /\ calls[c].dispatched = 1

DefaultKeys == {"gl", "hl"}

\* The default the client was configured with for a key of the body.
ConfiguredDefault(key) ==
    Get(client.options, IF key = "gl" THEN "defaultCountry" ELSE "defaultLanguage")

\* A country or language code: a string that is not empty.
IsCode(v) == v.t = "string" /\ v.s # <<>>

\* C5: in the body of a dispatched request, gl (hl) is the configured default
\* when a default is configured and the call left the field out, the call's
\* own code when the call gave one, and missing when neither is there.
C5_Defaults ==
    \A c \in Calls : \A key \in DefaultKeys :
        Sent(c) =>
            LET default == ConfiguredDefault(key)
                own == Get(calls[c].options, key)
                body == calls[c].request.body
            IN  /\ (IsCode(default) /\ Absent(own)) =>
                      (key \in DOMAIN body /\ body[key] = JsonText(default))
                /\ IsCode(own) =>
                      (key \in DOMAIN body /\ body[key] = JsonText(own))
                /\ (Absent(default) /\ Absent(own)) => key \notin DOMAIN body

CountryUs == Str(<<"u", "s">>)

\* C5 witness: the client has defaultCountry "us", the call gave no gl, and the
\* body of its request carries gl "us".
C5_Witness ==
    \E c \in Calls :
        /\ Sent(c)
        /\ Get(client.options, "defaultCountry") = CountryUs
        /\ "gl" \notin DOMAIN calls[c].options
        /\ "gl" \in DOMAIN calls[c].request.body
        /\ calls[c].request.body["gl"] = JsonText(CountryUs)

\* C6: the body handed to JSON.stringify for a dispatched request has no key
\* whose value is undefined, and the serialised body has just its keys.
C6_NoUndefinedKeys ==
    \A c \in Calls :
        Sent(c) =>
            /\ \A k \in DOMAIN calls[c].cleanBody : calls[c].cleanBody[k] # Undefined
            /\ DOMAIN calls[c].request.body = DOMAIN calls[c].cleanBody

\* C6 witness: the call passed gl explicitly as undefined, no default filled
\* it, and its request was dispatched without the key.
C6_Witness ==
    \E c \in Calls :
        /\ Sent(c)
        /\ "gl" \in DOMAIN calls[c].options
        /\ calls[c].options["gl"] = Undefined
        /\ "gl" \notin DOMAIN calls[c].cleanBody

\* The string has the part in it.
Contains(str, part) ==
    \E i \in 1..Len(str) :
        /\ i + Len(part) - 1 <= Len(str)
        /\ SubSeq(str, i, i + Len(part) - 1) = part

\* C7: a call whose timer fired had no response; its request is aborted, it
\* returns nothing, and when it completes it has raised ServerFailure with a
\* message that names the configured timeout.
C7_TimeoutFailure ==
    \A c \in Calls :
        calls[c].timer = "fired" =>
            /\ calls[c].aborted
            /\ calls[c].response = NoResponse
            /\ ~Returned(c)
            /\ Done(c) =>
                  /\ calls[c].thrown.name = "SerperServerError"
                  /\ Contains(calls[c].thrown.message, NumToStr(client.timeout.n))

Timeout100 == Num(100)

\* C7 witness: on a client with timeout 100 a call's timer fired and the call
\* completed with a failure.
C7_Witness ==
    \E c \in Calls :
        /\ calls[c].timer = "fired"
        /\ Done(c)
        /\ Get(client.options, "timeout") = Timeout100
        /\ Threw(c)

\* C8: the timer of a call that has finished is not pending.
C8_TimerReleased == \A c \in Calls : Done(c) => calls[c].timer # "armed"

\* C8 witness: a call finished on a transport error (no response, no timeout)
\* after it had armed its timer.
C8_Witness ==
    \E c \in Calls :
        /\ Done(c)
        /\ Sent(c)
        /\ calls[c].response = NoResponse
        /\ calls[c].timer = "cleared"

\* C9: every failure a call ends with is one of the four typed kinds, and a
\* call whose fetch failed (no response) ends with ServerFailure.
C9_TypedFailures ==
    \A c \in Calls :
        /\ Threw(c) => IsSerperTyped(calls[c].thrown)
        /\ (Done(c) /\ Sent(c) /\ calls[c].response = NoResponse) =>
              calls[c].thrown.name = "SerperServerError"

UnknownNetworkError == SerperServerError(<<"Network error: ", "Unknown error">>)

\* C9 witness: fetch rejected with a value that is no Error and the call ended
\* with the ServerFailure that wraps it.
C9_Witness ==
    \E c \in Calls :
        /\ Done(c)
        /\ calls[c].timer = "cleared"
        /\ calls[c].thrown = UnknownNetworkError

\* The call got a 2xx response whose body is not valid JSON, and completed.
MalformedOk(c) ==
    /\ Done(c)
    /\ Ok(calls[c].response)
    /\ calls[c].response.body.kind = "invalid"

\* C10 as claimed: a 2xx response with a malformed body ends the call with the
\* native JSON-parse failure.
C10_NativeParseFailure ==
    \A c \in Calls : MalformedOk(c) => calls[c].thrown = UnexpectedToken

WrappedParseFailure ==
    SerperServerError(<<"Network error: ">> \o UnexpectedToken.message)

\* C10 amended: a 2xx response with a malformed body ends the call with a
\* ServerFailure whose message is "Network error: " and the message of the
\* JSON-parse failure.
C10_ParseFailureWrapped ==
    \A c \in Calls : MalformedOk(c) => calls[c].thrown = WrappedParseFailure

\* C10 witness: a call completed on a 200 whose body is not valid JSON.
C10_Witness ==
    \E c \in Calls : MalformedOk(c) /\ calls[c].response.status = 200 /\ Threw(c)

\* The text a failure of the status table carries for a message text: the text
\* itself, and "<status>: <text>" for a ServerFailure.
MessageFor(status, text) ==
    IF KindOfStatus(status) = "SerperServerError"
    THEN NumToStr(status) \o <<": ">> \o text
    ELSE text

\* The call completed on a response whose status is not 2xx and whose body is
\* not valid JSON.
MalformedError(c) ==
    /\ Done(c)
    /\ GotErrorStatus(c)
    /\ calls[c].response.body.kind = "invalid"

\* C11: a call that completed on an error status with a body that is not valid
\* JSON raised the typed failure of the status table, and its message text is
\* the status text of the response, or "HTTP <code>" when the status text is
\* empty.
C11_NonJsonErrorBody ==
    \A c \in Calls :
        MalformedError(c) =>
            LET response == calls[c].response
                text == IF response.statusText # <<>>
                        THEN response.statusText
                        ELSE <<"HTTP ">> \o NumToStr(response.status)
            IN  /\ calls[c].thrown.name = KindOfStatus(response.status)
                /\ calls[c].thrown.message = MessageFor(response.status, text)
                /\ ~Returned(c)

Http404 == <<"HTTP ", "4", "0", "4">>

\* C11 witness: a 404 with an empty status text and a malformed body ended the
\* call with ValidationFailure "HTTP 404".
C11_Witness ==
    \E c \in Calls :
        /\ MalformedError(c)
        /\ calls[c].response.statusText = <<>>
        /\ calls[c].thrown.name = "SerperValidationError"
        /\ calls[c].thrown.message = Http404

\* The call completed on a response whose status is not 2xx and whose JSON
\* body has an `error` string.
ErrorString(c) ==
    /\ Done(c)
    /\ GotErrorStatus(c)
    /\ calls[c].response.body.kind = "object"
    /\ Get(calls[c].response.body.obj, "error").t = "string"

\* C12: a call that completed on an error response whose JSON body has an
\* `error` string raised a failure whose message is that string for
\* AuthFailure, RateLimitFailure and ValidationFailure, and
\* "<status>: <that string>" for ServerFailure.
C12_ErrorStringMessage ==
    \A c \in Calls :
        ErrorString(c) =>
            LET response == calls[c].response
                error == response.body.obj["error"].s
            IN  /\ calls[c].thrown.name = KindOfStatus(response.status)
                /\ calls[c].thrown.name # "SerperServerError" =>
                      calls[c].thrown.message = error
                /\ calls[c].thrown.name = "SerperServerError" =>
                      calls[c].thrown.message = NumToStr(response.status) \o <<": ">> \o error

InvalidApiKey503 == <<"5", "0", "3", ": ", "Invalid API key">>

\* C12 witness: a 503 whose body has the error "Invalid API key" ended the call
\* with ServerFailure "503: Invalid API key".
C12_Witness ==
    \E c \in Calls :
        /\ ErrorString(c)
        /\ calls[c].response.status = 503
        /\ calls[c].thrown.name = "SerperServerError"
        /\ calls[c].thrown.message = InvalidApiKey503

\* The call completed on a 2xx response whose body is well-formed JSON.
WellFormedOk(c) ==
    /\ Done(c)
    /\ Ok(calls[c].response)
    /\ calls[c].response.body.kind \in JsonKinds

\* C13: a call that completed on a 2xx response with a well-formed JSON body
\* returned the decoded body, exactly as it was decoded, and raised nothing.
C13_RoundTrip ==
    \A c \in Calls :
        WellFormedOk(c) =>
            /\ calls[c].returned = calls[c].response.body
            /\ ~Threw(c)

JsonNull == [kind |-> "null", obj |-> EmptyObject]

\* C13 witness: searchScholar, called with a query that is not blank, completed
\* on a 201 whose body is the JSON null, and returned it.
C13_Witness ==
    \E c \in Calls :
        /\ WellFormedOk(c)
        /\ calls[c].op = "searchScholar"
        /\ ~IsBlankString(calls[c].query)
        /\ calls[c].response.status = 201
        /\ calls[c].returned = JsonNull

\* The call ended in the pre-flight check of its operation: a ValidationFailure
\* with no request built.
PreflightFailed(c) ==
    /\ Done(c)
    /\ calls[c].thrown.name = "SerperValidationError"
    /\ calls[c].request = NoRequest

\* C14: a call has dispatched at most one HTTP request, whatever has happened
\* to it since; none when its pre-flight check failed, exactly one otherwise.
C14_AtMostOneRequest ==
    \A c \in Calls :
        /\ calls[c].dispatched <= 1
        /\ PreflightFailed(c) => calls[c].dispatched = 0
        /\ (Started(c) /\ ~PreflightFailed(c)) => calls[c].dispatched = 1

\* C14 witness: the fetch of a call was rejected by the transport, the call
\* ended with a failure, and it had dispatched one request.
C14_Witness ==
    \E c \in Calls :
        /\ Done(c)
        /\ calls[c].rejection.name = "TypeError"
        /\ Threw(c)
        /\ calls[c].dispatched = 1

\* What a call was given: its operation and arguments, and what its own fetch
\* settled with.
Given(c) ==
    <<calls[c].op, calls[c].query, calls[c].options, calls[c].response,
      calls[c].rejection>>

\* How a call ended.
Outcome(c) == <<calls[c].returned, calls[c].thrown>>

\* C15: among the calls in progress on one client, a call is aborted by its
\* own timer only, and two calls that have completed on the same operation,
\* arguments and response (or rejection) of their own ended the same way,
\* whatever the other calls did in between.
C15_CallsIndependent ==
    \A c \in Calls :
        /\ calls[c].aborted => calls[c].timer = "fired"
        /\ \A d \in Calls :
              (Done(c) /\ Done(d) /\ Given(c) = Given(d)) => Outcome(c) = Outcome(d)

\* C15 witness: one call timed out and ended with its failure while another
\* call is still waiting for its response, its timer pending and its signal
\* not aborted.
C15_Witness ==
    \E c \in Calls : \E d \in Calls \ {c} :
        /\ Done(c)
        /\ calls[c].timer = "fired"
        /\ calls[c].thrown.name = "SerperServerError"
        /\ calls[d].pc = "fetch"
        /\ calls[d].timer = "armed"
        /\ ~calls[d].aborted

\* An API key a caller gave: a string that is not empty.
KeyGiven(options) == Get(options, "apiKey").t = "string" /\ Get(options, "apiKey").s # <<>>

GivenOr(options, key, fallback) ==
    IF Get(options, key) = Undefined THEN fallback ELSE Get(options, key)

FixedBaseUrl == Str(<<"https://google.serper.dev">>)

ThirtySeconds == Num(30000)

\* C17: a constructed client holds the base URL and the timeout it was given,
\* and otherwise the fixed base URL and 30000 ms; the timer of every call was
\* armed with the timeout the client holds.
C17_ResolvedConfig ==
    client.state = "constructed" =>
        /\ client.baseUrl = GivenOr(client.options, "baseUrl", FixedBaseUrl)
        /\ client.timeout = GivenOr(client.options, "timeout", ThirtySeconds)
        /\ \A c \in Calls :
              calls[c].timer # "unset" =>
                  calls[c].timerMs = GivenOr(client.options, "timeout", ThirtySeconds)

TimeoutZero == Num(0)

\* C17 witness: a client given the timeout 0 and no base URL has a call in
\* flight whose timer was armed with 0.
C17_Witness ==
    \E c \in Calls :
        /\ Get(client.options, "timeout") = TimeoutZero
        /\ Get(client.options, "baseUrl") = Undefined
        /\ calls[c].timer = "armed"
        /\ calls[c].timerMs = TimeoutZero

\* The fixed endpoint path of each operation.
PathOf(op) ==
    CASE op = "search" -> <<"/search">>
      [] op = "searchImages" -> <<"/images">>
      [] op = "searchNews" -> <<"/news">>
      [] op = "searchVideos" -> <<"/videos">>
      [] op = "searchShopping" -> <<"/shopping">>
      [] op = "searchMaps" -> <<"/maps">>
      [] op = "searchPlaces" -> <<"/maps">>
      [] op = "getReviews" -> <<"/reviews">>
      [] op = "searchScholar" -> <<"/scholar">>
      [] op = "searchPatents" -> <<"/patents">>
      [] op = "autocomplete" -> <<"/autocomplete">>

HeaderNames == {"Content-Type", "X-API-KEY"}

ApplicationJson == <<"application/json">>

\* C18: every request dispatched is a POST to the base URL followed by the
\* path of its operation, with the headers Content-Type: application/json and
\* X-API-KEY: the API key the constructor was given.
C18_RequestShape ==
    \A c \in Calls :
        Sent(c) =>
            /\ calls[c].request.method = "POST"
            /\ calls[c].request.url =
                  GivenOr(client.options, "baseUrl", FixedBaseUrl).s \o PathOf(calls[c].op)
            /\ DOMAIN calls[c].request.headers = HeaderNames
            /\ calls[c].request.headers["Content-Type"] = ApplicationJson
            /\ calls[c].request.headers["X-API-KEY"] = Get(client.options, "apiKey").s

CustomPatentsUrl == <<"https://custom.api.com", "/patents">>

\* C18 witness: on a client with a custom base URL, searchPatents dispatched
\* its request to that base URL followed by /patents.
C18_Witness ==
    \E c \in Calls :
        /\ Sent(c)
        /\ calls[c].op = "searchPatents"
        /\ calls[c].request.url = CustomPatentsUrl

\* Call c is a searchMaps call and call d a searchPlaces call with the same
\* query and options (on the one client there is).
AliasPair(c, d) ==
    /\ calls[c].op = "searchMaps"
    /\ calls[d].op = "searchPlaces"
    /\ calls[c].query = calls[d].query
    /\ calls[c].options = calls[d].options

MapsPath == <<"/maps">>

\* C19: a searchPlaces call and a searchMaps call with the same query and
\* options dispatched the same request (to /maps, with the same body) or both
\* none, and when their fetches settled the same way they ended with the same
\* result or the same failure.
C19_PlacesIsMaps ==
    \A c \in Calls : \A d \in Calls :
        AliasPair(c, d) =>
            /\ calls[c].request = calls[d].request
            /\ calls[c].dispatched = calls[d].dispatched
            /\ Sent(d) => calls[d].endpoint = MapsPath
            /\ (Done(c) /\ Done(d)
                  /\ calls[c].response = calls[d].response
                  /\ calls[c].rejection = calls[d].rejection) =>
                  Outcome(c) = Outcome(d)

GlDe == [gl |-> Str(<<"d", "e">>)]

\* C19 witness: searchMaps and searchPlaces were called with the same query and
\* the option gl, both got a 429, and both ended with RateLimitFailure.
C19_Witness ==
    \E c \in Calls : \E d \in Calls :
        /\ AliasPair(c, d)
        /\ calls[d].options = GlDe
        /\ Done(c)
        /\ Done(d)
        /\ calls[c].response.status = 429
        /\ calls[d].response.status = 429
        /\ calls[d].thrown.name = "SerperRateLimitError"

\* The status code of each kind of typed failure.
CanonicalStatus(name) ==
    CASE name = "SerperAuthError" -> 401
      [] name = "SerperRateLimitError" -> 429
      [] name = "SerperValidationError" -> 400
      [] name = "SerperServerError" -> 500

NullText == <<"null">>

\* C21: the body of a dispatched request has no key whose value is null.
C21_NoNullKeys ==
    \A c \in Calls :
        Sent(c) =>
            \A k \in DOMAIN calls[c].request.body : calls[c].request.body[k] # NullText

OtherKey == Str(<<"other-key">>)

\* The client that the same options with another API key construct.
WithKey(cl, key) == Constructed([cl.options EXCEPT !.apiKey = key])

EmptyMessageOf(op) == IF op = "autocomplete" THEN AutocompleteEmpty ELSE QueryEmpty

\* Call c as client cl runs it: the operation of c on the arguments of c, then
\* the steps c has taken, on the response or rejection c got.
Replay(cl, c) ==
    LET call == calls[c]
        started == IF call.op = "getReviews"
                   THEN ReviewsCall(cl, call.options)
                   ELSE QueryCall(cl, call.op, PathOf(call.op), EmptyMessageOf(call.op),
                                  call.query, call.options)
        got == FetchResolved(started, call.response)
    IN  IF started.pc = "done" THEN started
        ELSE IF call.rejection # NoError THEN Caught(cl, started, call.rejection)
        ELSE IF call.response = NoResponse THEN started
        ELSE IF call.pc # "done" THEN got
        ELSE IF Ok(call.response) THEN BodySettled(cl, got)
        ELSE ErrorBodySettled(cl, got)

\* What a call shows apart from its headers: the URL and the body it sent,
\* its result, and the kind and message of its failure.
Observed(call) ==
    <<call.request.url, call.request.body, call.returned, call.thrown.name,
      call.thrown.message>>

\* The API key is in one of the texts a call shows.
KeyShown(key, call) ==
    \/ Contains(call.request.url, key)
    \/ \E k \in DOMAIN call.request.body : Contains(call.request.body[k], key)
    \/ Contains(call.thrown.message, key)

\* C22: a call run by the client with another API key, on the same arguments
\* and the same response or rejection, shows the same URL, body, result and
\* failure as the call that ran, and differs from it in the X-API-KEY header
\* alone; the key is in no URL, body or failure message.
C22_KeyOnlyInHeader ==
    \A c \in Calls :
        Started(c) =>
            LET other == Replay(WithKey(client, OtherKey), c)
            IN  /\ Observed(Replay(client, c)) = Observed(calls[c])
                /\ Observed(other) = Observed(calls[c])
                /\ Sent(c) =>
                      /\ calls[c].request.headers["X-API-KEY"] = client.apiKey.s
                      /\ other.request.headers =
                            [calls[c].request.headers EXCEPT !["X-API-KEY"] = OtherKey.s]
                /\ ~KeyShown(client.apiKey.s, calls[c])
                /\ ~KeyShown(OtherKey.s, other)

\* C22 witness: a call ended with AuthFailure on a 401, the failure a wrong
\* API key gets.
C22_Witness ==
    \E c \in Calls :
        /\ Done(c)
        /\ Sent(c)
        /\ calls[c].request.headers["X-API-KEY"] = client.apiKey.s
        /\ calls[c].response.status = 401
        /\ calls[c].thrown.name = "SerperAuthError"

NetworkErrorPrefix == "Network error: "

TimeoutPrefix == "Request timeout after "

\* The call completed on a response whose status is not 2xx.
EndedOnErrorStatus(c) == Done(c) /\ GotErrorStatus(c)

\* C23: the failure a call ended with on an error response is the failure the
\* status mapping constructed for that response: the same kind, the same
\* message and the same status, not wrapped as a network error and not the
\* timeout failure.
C23_TypedFailureUnchanged ==
    \A c \in Calls :
        EndedOnErrorStatus(c) =>
            /\ calls[c].thrown = HandleError(calls[c].response)
            /\ calls[c].thrown.name = KindOfStatus(calls[c].response.status)
            /\ calls[c].thrown.message # <<>> =>
                  /\ Head(calls[c].thrown.message) # NetworkErrorPrefix
                  /\ Head(calls[c].thrown.message) # TimeoutPrefix

InvalidApiKeyText == <<"Invalid API key">>

\* C23 witness: a 429 whose body has the error "Invalid API key" ended the call
\* with a RateLimitFailure of exactly that message.
C23_Witness ==
    \E c \in Calls :
        /\ EndedOnErrorStatus(c)
        /\ calls[c].response.status = 429
        /\ calls[c].thrown.name = "SerperRateLimitError"
        /\ calls[c].thrown.message = InvalidApiKeyText

\* C24: in the body of a dispatched request, a value the call gave for gl (hl),
\* the empty string included, is kept, and the configured default is there
\* exactly when a default is configured and the call's value is undefined.
C24_DefaultIffUndefined ==
    \A c \in Calls : \A key \in DefaultKeys :
        Sent(c) =>
            LET default == ConfiguredDefault(key)
                own == Get(calls[c].options, key)
                body == calls[c].request.body
            IN  /\ own # Undefined =>
                      (key \in DOMAIN body /\ body[key] = JsonText(own))
                /\ (own = Undefined /\ IsCode(default)) =>
                      (key \in DOMAIN body /\ body[key] = JsonText(default))

\* The positions of a string that hold no white space.
Inked(str) == {i \in 1..Len(str) : str[i] \notin WhiteSpace}

\* A string that is not blank, from its first to its last character that is no
\* white space.
Stripped(str) ==
    SubSeq(str,
           CHOOSE i \in Inked(str) : \A j \in Inked(str) : i <= j,
           CHOOSE i \in Inked(str) : \A j \in Inked(str) : i >= j)

\* C25: in the body of a request that a query-based operation dispatched, q is
\* the query argument without its leading and trailing white space, whatever
\* the options of the call hold.
C25_QueryIsTrimmedArgument ==
    \A c \in Calls :
        (Sent(c) /\ calls[c].op \in QueryOps) =>
            /\ "q" \in DOMAIN calls[c].request.body
            /\ calls[c].request.body["q"] = JsonText(Str(Stripped(calls[c].query.s)))

\* C26: every call that dispatched a request finishes, when pending timers
\* fire: also a call whose response arrived with a body that never completes.
C26_EveryCallFinishes == \A c \in Calls : Sent(c) ~> Done(c)

\* C27: the timeout a constructed client holds is a positive integer.
C27_TimeoutPositive ==
    client.state = "constructed" =>
        /\ client.timeout.t = "number"
        /\ client.timeout.n \in Nat \ {0}

\* The call ended with the timeout failure.
TimedOut(c) ==
    /\ Done(c)
    /\ calls[c].thrown.name = "SerperServerError"
    /\ calls[c].thrown.message # <<>>
    /\ Head(calls[c].thrown.message) = TimeoutPrefix

\* C28: a call has ended with the timeout failure exactly when it has ended
\* and its own timer fired, which happens before a response arrived only: from
\* the arrival of the response on, the timer is cleared, while the status is
\* inspected and the body read, and the call does not end with the timeout
\* failure.
C28_TimeoutIffTimerFired ==
    \A c \in Calls :
        /\ TimedOut(c) <=> (Done(c) /\ calls[c].timer = "fired")
        /\ calls[c].timer = "fired" => calls[c].response = NoResponse
        /\ calls[c].response # NoResponse =>
              /\ calls[c].timer = "cleared"
              /\ ~TimedOut(c)

TimeoutAfter30000 ==
    <<"Request timeout after ", "3", "0", "0", "0", "0", "ms. Consider increasing timeout.">>

\* C28 witness: on a client with the default timeout, the timer of a call
\* fired before any response and the call ended with the timeout failure.
C28_Witness ==
    \E c \in Calls :
        /\ TimedOut(c)
        /\ calls[c].response = NoResponse
        /\ calls[c].thrown.message = TimeoutAfter30000

\* The call is a getReviews call that ended in the pre-flight check, with no
\* request dispatched.
ReviewsRejected(c) ==
    /\ Done(c)
    /\ calls[c].thrown.name = "SerperValidationError"
    /\ ~Sent(c)
    /\ calls[c].dispatched = 0

\* C29 as claimed: a getReviews call whose placeId, cid and q are each absent,
\* empty or white space only has raised ValidationFailure and has dispatched
\* nothing.
C29_BlankIdentifiersRejected ==
    \A c \in Calls :
        (Started(c) /\ calls[c].op = "getReviews"
           /\ \A k \in IdentifierKeys :
                 Absent(Get(calls[c].options, k)) \/ IsBlankString(Get(calls[c].options, k))) =>
            ReviewsRejected(c)

EmptyString == Str(<<>>)

\* An identifier that is absent or the empty string.
Empty(v) == v = Undefined \/ v = EmptyString

\* C29 amended: a getReviews call has raised ValidationFailure and dispatched
\* nothing exactly when placeId, cid and q are each absent or empty; an
\* identifier of white space counts as given, and the call has dispatched one
\* request that carries it as it is.
C29_EmptyIdentifiersRejected ==
    \A c \in Calls :
        (Started(c) /\ calls[c].op = "getReviews") =>
            /\ ReviewsRejected(c) <=> \A k \in IdentifierKeys : Empty(Get(calls[c].options, k))
            /\ ~ReviewsRejected(c) =>
                  /\ calls[c].dispatched = 1
                  /\ \A k \in IdentifierKeys :
                        Get(calls[c].options, k).t = "string" =>
                            /\ k \in DOMAIN calls[c].request.body
                            /\ calls[c].request.body[k] = JsonText(Get(calls[c].options, k))

OneSpace == Str(<<" ">>)

\* C29 witness: getReviews was called with a placeId of one space and nothing
\* else, and its request is in flight.
C29_Witness ==
    \E c \in Calls :
        /\ calls[c].op = "getReviews"
        /\ DOMAIN calls[c].options = {"placeId"}
        /\ calls[c].options["placeId"] = OneSpace
        /\ calls[c].pc = "fetch"
        /\ Sent(c)

\* The body of the response gives no usable `error` string: it is not valid
\* JSON, or it is valid JSON with no `error` member.
NoUsableError(response) ==
    \/ response.body.kind = "invalid"
    \/ response.body.kind = "null"
    \/ /\ response.body.kind = "object"
       /\ "error" \notin DOMAIN response.body.obj

\* C30: a failure a call ended with on an error response has a message that
\* is not empty, and when the body gave no usable `error` string and the
\* status text is empty, the message text is "HTTP <code>".
C30_MessageNotEmpty ==
    \A c \in Calls :
        EndedOnErrorStatus(c) =>
            /\ calls[c].thrown.message # <<>>
            /\ (NoUsableError(calls[c].response) /\ calls[c].response.statusText = <<>>) =>
                  calls[c].thrown.message =
                      MessageFor(calls[c].response.status,
                                 <<"HTTP ">> \o NumToStr(calls[c].response.status))

====
